---- MODULE Spec2Model ----
(***************************************************************************)
(* A model of chrome/browser/metrics/metrics_log.cc: one MetricsLog (the   *)
(* report under construction) with its two encodings, the XML event stream *)
(* and the UMA protobuf, over the PrefService values it reads and resets.  *)
(***************************************************************************)
EXTENDS Integers, Sequences, FiniteSets, TLC

(* ------------------------------ bounds -------------------------------- *)

\* Increments collaborators may apply to the persisted counters in one run.
MaxIncrements == 2
\* Record operations (RecordEnvironment, ...) in one run.
MaxOps == 2
\* Clock ticks in one run.
MaxTime == 2
\* Resolution of the clock: ticks in one second (InSeconds truncates).
TicksPerSecond == 2
\* Times the plugin-usage list is persisted in one run.
MaxPluginWrites == 1
\* Calls of GetIncrementalUptime in one run of the stepwise calls.
MaxUptimeCalls == 3

VARIABLES
    chromeos,           \* build: OS_CHROMEOS defined
    dcheck,             \* build: DCHECK / NOTREACHED are fatal (debug build)
    counters,           \* PrefService: the integer prefs
    plugin_stats,       \* PrefService: prefs::kStabilityPluginStats
    uptime_sec,         \* PrefService: prefs::kUninstallMetricsUptimeSec
    install_date,       \* PrefService: prefs::kMetricsClientIDTimestamp
    plugins,            \* PluginService: the plugins installed
    profiles_loaded,    \* ProfileManager: there is a loaded profile
    now,                \* base::TimeTicks::Now(), in ticks
    last_updated_time,  \* the function-local static of GetIncrementalUptime
    xml,                \* MetricsLog: the XML events written so far
    open,               \* MetricsLog: the XML elements now open
    proto,              \* MetricsLog: uma_proto()
    num_events,         \* MetricsLog: num_events_
    locked,             \* MetricsLog: locked()
    crashed,            \* the process died on a fatal assertion
    incs,               \* history: the increments no report carries yet
    consumed,           \* history: what this log's operations have reset
    last_op,            \* history: the last record operation and its inputs
    nops, nincs, nwrites,   \* history: steps taken, for the bounds
    pc, count_local,    \* position and local of the stepwise snapshot
    uptime_calls,       \* the running calls of GetIncrementalUptime
    uptime_history      \* history: the values GetIncrementalUptime returned

vars == << chromeos, dcheck, counters, plugin_stats, uptime_sec, install_date,
           plugins, profiles_loaded,
           now, last_updated_time, xml, open, proto, num_events, locked,
           crashed, incs, consumed, last_op, nops, nincs, nwrites, pc,
           count_local, uptime_calls, uptime_history >>

(* ------------------------- the persisted counters --------------------- *)

RequiredCounters == { "kStabilityLaunchCount", "kStabilityCrashCount" }

RealtimeCounters ==
    { "kStabilityPageLoadCount", "kStabilityRendererCrashCount",
      "kStabilityExtensionRendererCrashCount", "kStabilityRendererHangCount",
      "kStabilityChildProcessCrashCount" }

ChromeOSCounters ==
    { "kStabilityOtherUserCrashCount", "kStabilityKernelCrashCount",
      "kStabilitySystemUncleanShutdownCount" }

EnvironmentCounters ==
    { "kStabilityIncompleteSessionEndCount",
      "kStabilityBreakpadRegistrationSuccess",
      "kStabilityBreakpadRegistrationFail", "kStabilityDebuggerPresent",
      "kStabilityDebuggerNotPresent" }

BookmarkPrefs ==
    { "kNumBookmarksOnBookmarkBar", "kNumFoldersOnBookmarkBar",
      "kNumBookmarksInOtherBookmarkFolder",
      "kNumFoldersInOtherBookmarkFolder", "kNumKeywords" }

StabilityCounters ==
    RequiredCounters \cup RealtimeCounters \cup ChromeOSCounters
        \cup EnvironmentCounters

IntegerPrefs == StabilityCounters \cup BookmarkPrefs

\* The counters collaborators increment in the model: one of each kind.
IncrementedCounters ==
    { "kStabilityLaunchCount", "kStabilityPageLoadCount",
      "kStabilityKernelCrashCount", "kStabilityDebuggerPresent" }

\* The XML attribute a stability counter is written as ("" when it has none).
XmlName(c) ==
    CASE c = "kStabilityLaunchCount" -> "launchcount"
      [] c = "kStabilityCrashCount" -> "crashcount"
      [] c = "kStabilityPageLoadCount" -> "pageloadcount"
      [] c = "kStabilityRendererCrashCount" -> "renderercrashcount"
      [] c = "kStabilityExtensionRendererCrashCount"
            -> "extensionrenderercrashcount"
      [] c = "kStabilityRendererHangCount" -> "rendererhangcount"
      [] c = "kStabilityChildProcessCrashCount" -> "childprocesscrashcount"
      [] c = "kStabilityIncompleteSessionEndCount" -> "incompleteshutdowncount"
      [] c = "kStabilityBreakpadRegistrationSuccess" -> "breakpadregistrationok"
      [] c = "kStabilityBreakpadRegistrationFail" -> "breakpadregistrationfail"
      [] c = "kStabilityDebuggerPresent" -> "debuggerpresent"
      [] c = "kStabilityDebuggerNotPresent" -> "debuggernotpresent"
      [] OTHER -> ""

\* The field of SystemProfileProto::Stability a counter is written as.
ProtoName(c) ==
    CASE c = "kStabilityLaunchCount" -> "launch_count"
      [] c = "kStabilityCrashCount" -> "crash_count"
      [] c = "kStabilityPageLoadCount" -> "page_load_count"
      [] c = "kStabilityRendererCrashCount" -> "renderer_crash_count"
      [] c = "kStabilityExtensionRendererCrashCount"
            -> "extension_renderer_crash_count"
      [] c = "kStabilityRendererHangCount" -> "renderer_hang_count"
      [] c = "kStabilityChildProcessCrashCount" -> "child_process_crash_count"
      [] c = "kStabilityOtherUserCrashCount" -> "other_user_crash_count"
      [] c = "kStabilityKernelCrashCount" -> "kernel_crash_count"
      [] c = "kStabilitySystemUncleanShutdownCount"
            -> "unclean_system_shutdown_count"
      [] c = "kStabilityIncompleteSessionEndCount"
            -> "incomplete_shutdown_count"
      [] c = "kStabilityBreakpadRegistrationSuccess"
            -> "breakpad_registration_success_count"
      [] c = "kStabilityBreakpadRegistrationFail"
            -> "breakpad_registration_failure_count"
      [] c = "kStabilityDebuggerPresent" -> "debugger_present_count"
      [] c = "kStabilityDebuggerNotPresent" -> "debugger_not_present_count"
      [] OTHER -> ""

(* ------------------------------ effects ------------------------------- *)

\* A handler is the sequence of effects it has on the log and on the prefs,
\* in the order of its statements; Run applies them one after the other and
\* stops at a fatal one.
Effect(k, msg, name, value) ==
    << [ k |-> k, msg |-> msg, name |-> name, value |-> value ] >>

\* NOTREACHED(): fatal in a build with DCHECKs, nothing otherwise.
NOTREACHED == IF dcheck THEN Effect("fatal", "", "", "") ELSE << >>

\* DCHECK(cond).
DCHECK(cond) == IF cond THEN << >> ELSE NOTREACHED

\* The XML writer of MetricsLogBase.
StartElement(name) == Effect("start", "", name, "")

\* Closes the element opened last.
EndElement == Effect("end", "", "", "")

WriteAttribute(name, value) == Effect("attr", "", name, value)

\* base::IntToString / Int64ToString, then WriteAttribute.
WriteIntAttribute(name, value) == WriteAttribute(name, ToString(value))

WriteInt64Attribute(name, value) == WriteAttribute(name, ToString(value))

\* The "session" and "time" attributes every event element carries.
WriteCommonEventAttributes ==
    WriteAttribute("session", "0")
        \o WriteInt64Attribute("time", now \div TicksPerSecond)

\* PrefService.
GetInteger(pref) == counters[pref]

SetInteger(pref, value) == Effect("pref", "", pref, value)

\* msg->set_<field>(value) on one of the messages of uma_proto().
SetField(msg, fld, value) == Effect("set", msg, fld, value)

\* add_<field>(): appends one element to a repeated field of uma_proto().
AddRepeated(fld, value) == Effect("add", "", fld, value)


EmptyProto ==
    [ stability |-> << >>, system_profile |-> << >>, hardware |-> << >>,
      gpu |-> << >>, os |-> << >>, plugin_stability |-> << >>,
      plugin |-> << >>, field_trial |-> << >>, omnibox_event |-> << >> ]

\* What the effects act on: the log and the prefs a handler changes, and
\* (history) what this handler has written to the protobuf.
Ctx ==
    [ xml |-> xml, open |-> open, proto |-> proto, num_events |-> num_events,
      counters |-> counters, plugin_stats |-> plugin_stats,
      uptime_sec |-> uptime_sec, last_updated_time |-> last_updated_time,
      crashed |-> crashed, wrote |-> EmptyProto, returned |-> << >> ]

Step(m, e) ==
    IF m.crashed THEN m
    ELSE CASE e.k = "fatal" -> [m EXCEPT !.crashed = TRUE]
           [] e.k = "start" ->
                [m EXCEPT !.xml = Append(@, [t |-> "start", name |-> e.name,
                                             value |-> ""]),
                          !.open = Append(@, e.name)]
           [] e.k = "end" ->
                IF m.open = << >> THEN m
                ELSE [m EXCEPT !.xml = Append(@, [t |-> "end",
                                                  name |-> m.open[Len(m.open)],
                                                  value |-> ""]),
                               !.open = SubSeq(@, 1, Len(@) - 1)]
           [] e.k = "attr" ->
                [m EXCEPT !.xml = Append(@, [t |-> "attr", name |-> e.name,
                                             value |-> e.value])]
           [] e.k = "pref" -> [m EXCEPT !.counters[e.name] = e.value]
           [] e.k = "set" ->
                [m EXCEPT !.proto[e.msg] = (e.name :> e.value) @@ @,
                          !.wrote[e.msg] = (e.name :> e.value) @@ @]
           [] e.k = "add" ->
                [m EXCEPT !.proto[e.name] = Append(@, e.value),
                          !.wrote[e.name] = Append(@, e.value)]
           [] e.k = "clear" ->
                [m EXCEPT !.plugin_stats = [null |-> FALSE, items |-> << >>]]
           [] e.k = "uptime" ->
                [m EXCEPT !.last_updated_time = [set |-> TRUE, t |-> now],
                          !.uptime_sec = @ + e.value,
                          !.returned = Append(@, e.name)]
           [] e.k = "event" -> [m EXCEPT !.num_events = @ + 1]

\* The effects lo..hi of a handler applied to m, in order.
RECURSIVE Run(_, _, _, _)
Run(m, effects, lo, hi) ==
    IF lo > hi \/ m.crashed THEN m
    ELSE IF lo = hi THEN Step(m, effects[lo])
    ELSE LET mid == (lo + hi) \div 2
             m1 == Run(m, effects, lo, mid)
         IN  IF m1.crashed THEN m1 ELSE Run(m1, effects, mid + 1, hi)

(* ------------------------ GetIncrementalUptime ------------------------ *)

\* Faulty variant: the static starts as the zero time, not as now.
IncrementalTime_FromZero ==
    LET last == IF last_updated_time.set THEN last_updated_time.t ELSE 0
    IN  (now - last) \div TicksPerSecond

\* (now - last_updated_time).InSeconds(); the static starts as now.
IncrementalTime ==
    LET last == IF last_updated_time.set THEN last_updated_time.t ELSE now
    IN  (now - last) \div TicksPerSecond

\* Faulty variant: the uninstall-metrics uptime is left as it is.
GetIncrementalUptime_NoPref == Effect("uptime", "", IncrementalTime, 0)

\* Moves the checkpoint to now; adds the seconds to the uninstall-metrics
\* uptime when there are any; returns the seconds (history: the name of
\* the effect holds the value returned).
GetIncrementalUptime ==
    Effect("uptime", "", IncrementalTime,
           IF IncrementalTime > 0 THEN IncrementalTime ELSE 0)

(* ------------------------- stability attributes ----------------------- *)

\* Faulty variant: the required counters are read and never reset.
WriteRequiredStabilityAttributes_NoReset ==
    LET launch_count == GetInteger("kStabilityLaunchCount")
        crash_count == GetInteger("kStabilityCrashCount")
    IN  WriteIntAttribute("launchcount", launch_count)
            \o WriteIntAttribute("crashcount", crash_count)
            \o SetField("stability", "launch_count", launch_count)
            \o SetField("stability", "crash_count", crash_count)

WriteRequiredStabilityAttributes ==
    LET launch_count == GetInteger("kStabilityLaunchCount")
        crash_count == GetInteger("kStabilityCrashCount")
    IN  SetInteger("kStabilityLaunchCount", 0)
            \o SetInteger("kStabilityCrashCount", 0)
            \o WriteIntAttribute("launchcount", launch_count)
            \o WriteIntAttribute("crashcount", crash_count)
            \o SetField("stability", "launch_count", launch_count)
            \o SetField("stability", "crash_count", crash_count)

\* Faulty variant: a realtime counter is written and left as it is.
WriteRealtimeCounter_NoReset(pref) ==
    LET count == GetInteger(pref)
    IN  IF count # 0
        THEN WriteIntAttribute(XmlName(pref), count)
                 \o SetField("stability", ProtoName(pref), count)
        ELSE << >>

\* Faulty variant: a realtime counter is written whatever its value.
WriteRealtimeCounter_Always(pref) ==
    LET count == GetInteger(pref)
    IN  WriteIntAttribute(XmlName(pref), count)
            \o SetField("stability", ProtoName(pref), count)
            \o SetInteger(pref, 0)

\* One realtime counter: written to both encodings and reset when non-zero.
WriteRealtimeCounter(pref) ==
    LET count == GetInteger(pref)
    IN  IF count # 0
        THEN WriteIntAttribute(XmlName(pref), count)
                 \o SetField("stability", ProtoName(pref), count)
                 \o SetInteger(pref, 0)
        ELSE << >>

\* One OS_CHROMEOS counter: written to the protobuf alone when non-zero.
WriteChromeOSCounter(pref) ==
    LET count == GetInteger(pref)
    IN  IF count # 0
        THEN SetField("stability", ProtoName(pref), count)
                 \o SetInteger(pref, 0)
        ELSE << >>

WriteRealtimeStabilityAttributes ==
    LET recent_duration == IncrementalTime
    IN  WriteRealtimeCounter("kStabilityPageLoadCount")
            \o WriteRealtimeCounter("kStabilityRendererCrashCount")
            \o WriteRealtimeCounter("kStabilityExtensionRendererCrashCount")
            \o WriteRealtimeCounter("kStabilityRendererHangCount")
            \o WriteRealtimeCounter("kStabilityChildProcessCrashCount")
            \o (IF chromeos
                THEN WriteChromeOSCounter("kStabilityOtherUserCrashCount")
                         \o WriteChromeOSCounter("kStabilityKernelCrashCount")
                         \o WriteChromeOSCounter(
                                "kStabilitySystemUncleanShutdownCount")
                ELSE << >>)
            \o GetIncrementalUptime
            \o (IF recent_duration # 0
                THEN WriteInt64Attribute("uptimesec", recent_duration)
                         \o SetField("stability", "uptime_sec",
                                     recent_duration)
                ELSE << >>)

(* --------------------------- strings and hashes ----------------------- *)

\* A UTF-8 string is its sequence of bytes, a UTF-16 string its sequence of
\* code units; code points up to U+FFFF are modelled.
RECURSIVE UTF8ToUTF16(_)
UTF8ToUTF16(s) ==
    IF s = << >> THEN << >>
    ELSE IF s[1] < 128 THEN << s[1] >> \o UTF8ToUTF16(Tail(s))
    ELSE IF s[1] \in 194..223 /\ Len(s) >= 2 /\ s[2] \in 128..191
    THEN << (s[1] - 192) * 64 + (s[2] - 128) >>
             \o UTF8ToUTF16(SubSeq(s, 3, Len(s)))
    ELSE IF s[1] \in 224..239 /\ Len(s) >= 3 /\ s[2] \in 128..191
                /\ s[3] \in 128..191
    THEN << (s[1] - 224) * 4096 + (s[2] - 128) * 64 + (s[3] - 128) >>
             \o UTF8ToUTF16(SubSeq(s, 4, Len(s)))
    ELSE << 65533 >> \o UTF8ToUTF16(Tail(s))

RECURSIVE UTF16ToUTF8(_)
UTF16ToUTF8(s) ==
    IF s = << >> THEN << >>
    ELSE IF s[1] < 128 THEN << s[1] >> \o UTF16ToUTF8(Tail(s))
    ELSE IF s[1] < 2048
    THEN << 192 + (s[1] \div 64), 128 + (s[1] % 64) >> \o UTF16ToUTF8(Tail(s))
    ELSE << 224 + (s[1] \div 4096), 128 + ((s[1] \div 64) % 64),
            128 + (s[1] % 64) >> \o UTF16ToUTF8(Tail(s))

NameFoo == << 70, 111, 111 >>
NameBar == << 66, 97, 114 >>
NameEAcute == << 195, 169 >>
\* "foo.dll", "foo2.dll", "bar.so"
FileFoo == << 102, 111, 111, 46, 100, 108, 108 >>
FileFoo2 == << 102, 111, 111, 50, 46, 100, 108, 108 >>
FileBar == << 98, 97, 114, 46, 115, 111 >>

\* MetricsLogBase::CreateHashes: the base64 of the MD5 digest of the bytes,
\* tabulated for the names of the model.
CreateHashes(s) ==
    CASE s = NameFoo -> "E1bGfXrRY42Ba/uCLdLCXQ=="
      [] s = NameBar -> "3cNfiPpxtu8UKuYfNTZGUw=="
      [] s = NameEAcute -> "Zt3Nl8/eq7L2+4qZm0vHbw=="
      [] s = << >> -> "1B2M2Y8AsgTpgAmY7PhCfg=="
      [] s = FileFoo -> "YawQORag8U/5rj+VRuuY4g=="
      [] s = FileFoo2 -> "kJQxv4Eb7uDg8TnYHzRT4Q=="
      [] s = FileBar -> "fZlxvpGZoN73yPGjd8/hrA=="
      [] OTHER -> "?"

(* ------------------------------ plugins ------------------------------- *)

\* webkit::WebPluginInfo values: name and version are string16.
PluginFoo ==
    [ name |-> << 70, 111, 111 >>, filename |-> FileFoo,
      version |-> << 49, 46, 48 >>, enabled |-> TRUE ]
PluginFoo2 ==
    [ name |-> << 70, 111, 111 >>, filename |-> FileFoo2,
      version |-> << 50, 46, 48 >>, enabled |-> FALSE ]
PluginBar ==
    [ name |-> << 66, 97, 114 >>, filename |-> FileBar,
      version |-> << 51 >>, enabled |-> TRUE ]
PluginEAcute ==
    [ name |-> << 233 >>, filename |-> FileBar,
      version |-> << 52 >>, enabled |-> TRUE ]

\* Values of the kStabilityPluginStats list: dictionaries, and a value of
\* another type.
UsageFoo ==
    [ type |-> "dictionary",
      dict |-> [ name |-> NameFoo, launches |-> 1, instances |-> 3,
                 crashes |-> 2 ] ]
UsageBar ==
    [ type |-> "dictionary", dict |-> [ name |-> NameBar, crashes |-> 1 ] ]
UsageEAcute ==
    [ type |-> "dictionary",
      dict |-> [ name |-> NameEAcute, launches |-> 2, instances |-> 2 ] ]
UsageNoName ==
    [ type |-> "dictionary", dict |-> [ launches |-> 1 ] ]
UsageNotDict == [ type |-> "integer", dict |-> << >> ]

\* DictionaryValue::GetString / GetInteger: the out-parameter keeps its
\* value when the key is missing.
DictGet(dict, key, default) ==
    IF key \in DOMAIN dict THEN dict[key] ELSE default

\* Faulty variant: the first item of the list, whatever its name.
FindPlugin_FirstItem(plugin_list, plugin_name_utf16, i) ==
    IF plugin_list = << >> THEN 0 ELSE 1

\* Faulty variant: the last item of that name wins.
FindPlugin_LastMatch(plugin_list, plugin_name_utf16, i) ==
    LET named == { j \in 1..Len(plugin_list) :
                     plugin_list[j].name = plugin_name_utf16 }
    IN  IF named = {} THEN 0
        ELSE CHOOSE j \in named : \A k \in named : k <= j

\* The first item of plugin_list whose name is plugin_name_utf16, or 0.
RECURSIVE FindPlugin(_, _, _)
FindPlugin(plugin_list, plugin_name_utf16, i) ==
    IF i > Len(plugin_list) THEN 0
    ELSE IF plugin_list[i].name = plugin_name_utf16 THEN i
    ELSE FindPlugin(plugin_list, plugin_name_utf16, i + 1)

\* GetPluginPrefs(): NULL (FALSE) when no profile is loaded.
GetPluginPrefs == profiles_loaded

\* SetPluginInfo: the SystemProfileProto::Plugin of one inventory item.
SetPluginInfo(plugin_info, plugin_prefs) ==
    LET plugin == [ name |-> UTF16ToUTF8(plugin_info.name),
                    filename |-> plugin_info.filename,
                    version |-> UTF16ToUTF8(plugin_info.version) ]
    IN  IF plugin_prefs
        THEN ("is_disabled" :> ~plugin_info.enabled) @@ plugin
        ELSE plugin

\* Faulty variant: the pluginstability element is closed by hand at the
\* end of the loop body, which the continue of an unmatched record skips.
PluginStabilityItem_ManualClose(item, plugin_list, plugin_prefs) ==
    IF item.type # "dictionary" THEN NOTREACHED
    ELSE
    LET plugin_name == DictGet(item.dict, "name", << >>)
        launches == DictGet(item.dict, "launches", 0)
        instances == DictGet(item.dict, "instances", 0)
        crashes == DictGet(item.dict, "crashes", 0)
        found == FindPlugin(plugin_list, UTF8ToUTF16(plugin_name), 1)
    IN  StartElement("pluginstability")
            \o WriteAttribute("filename", CreateHashes(plugin_name))
            \o WriteIntAttribute("launchcount", launches)
            \o WriteIntAttribute("instancecount", instances)
            \o WriteIntAttribute("crashcount", crashes)
            \o (IF found = 0
                THEN NOTREACHED
                ELSE AddRepeated("plugin_stability",
                         [ plugin |-> SetPluginInfo(plugin_list[found],
                                                    plugin_prefs),
                           launch_count |-> launches,
                           instance_count |-> instances,
                           crash_count |-> crashes ])
                         \o EndElement)

\* The body of the loop of WritePluginStabilityElements for one list value.
PluginStabilityItem(item, plugin_list, plugin_prefs) ==
    IF item.type # "dictionary" THEN NOTREACHED
    ELSE
    LET plugin_name == DictGet(item.dict, "name", << >>)
        base64_name_hash == CreateHashes(plugin_name)
        launches == DictGet(item.dict, "launches", 0)
        instances == DictGet(item.dict, "instances", 0)
        crashes == DictGet(item.dict, "crashes", 0)
        found == FindPlugin(plugin_list, UTF8ToUTF16(plugin_name), 1)
    IN  StartElement("pluginstability")
            \o WriteAttribute("filename", base64_name_hash)
            \o WriteIntAttribute("launchcount", launches)
            \o WriteIntAttribute("instancecount", instances)
            \o WriteIntAttribute("crashcount", crashes)
            \o (IF found = 0
                THEN NOTREACHED
                ELSE AddRepeated("plugin_stability",
                         [ plugin |-> SetPluginInfo(plugin_list[found],
                                                    plugin_prefs),
                           launch_count |-> launches,
                           instance_count |-> instances,
                           crash_count |-> crashes ]))
            \o EndElement   \* ~ScopedElement, on both paths

RECURSIVE PluginStabilityLoop(_, _, _, _)
PluginStabilityLoop(items, i, plugin_list, plugin_prefs) ==
    IF i > Len(items) THEN << >>
    ELSE PluginStabilityItem(items[i], plugin_list, plugin_prefs)
             \o PluginStabilityLoop(items, i + 1, plugin_list, plugin_prefs)

\* Faulty variant: the list is left in the prefs.
ClearPluginStats_Kept == << >>

\* pref->ClearPref(prefs::kStabilityPluginStats): back to the registered
\* default, the empty list.
ClearPluginStats == Effect("clear", "", "", "")

WritePluginStabilityElements(plugin_list) ==
    IF plugin_stats.null THEN << >>
    ELSE StartElement("plugins")
             \o PluginStabilityLoop(plugin_stats.items, 1, plugin_list,
                                    GetPluginPrefs)
             \o ClearPluginStats
             \o EndElement

(* ------------------------- the stability element ---------------------- *)

\* Lines 293-307: a counter only RecordEnvironment reads is reset.
\* Lines 313-330: its value, as read, goes to both encodings.
WriteStabilityElement(plugin_list) ==
    LET incomplete_shutdown_count ==
            GetInteger("kStabilityIncompleteSessionEndCount")
        breakpad_registration_success_count ==
            GetInteger("kStabilityBreakpadRegistrationSuccess")
        breakpad_registration_failure_count ==
            GetInteger("kStabilityBreakpadRegistrationFail")
        debugger_present_count == GetInteger("kStabilityDebuggerPresent")
        debugger_not_present_count ==
            GetInteger("kStabilityDebuggerNotPresent")
    IN  DCHECK(~locked)
            \o StartElement("stability")
            \o WriteRequiredStabilityAttributes
            \o WriteRealtimeStabilityAttributes
            \o SetInteger("kStabilityIncompleteSessionEndCount", 0)
            \o SetInteger("kStabilityBreakpadRegistrationSuccess", 0)
            \o SetInteger("kStabilityBreakpadRegistrationFail", 0)
            \o SetInteger("kStabilityDebuggerPresent", 0)
            \o SetInteger("kStabilityDebuggerNotPresent", 0)
            \o WriteIntAttribute("incompleteshutdowncount",
                                 incomplete_shutdown_count)
            \o WriteIntAttribute("breakpadregistrationok",
                                 breakpad_registration_success_count)
            \o WriteIntAttribute("breakpadregistrationfail",
                                 breakpad_registration_failure_count)
            \o WriteIntAttribute("debuggerpresent", debugger_present_count)
            \o WriteIntAttribute("debuggernotpresent",
                                 debugger_not_present_count)
            \o SetField("stability", "incomplete_shutdown_count",
                        incomplete_shutdown_count)
            \o SetField("stability", "breakpad_registration_success_count",
                        breakpad_registration_success_count)
            \o SetField("stability", "breakpad_registration_failure_count",
                        breakpad_registration_failure_count)
            \o SetField("stability", "debugger_present_count",
                        debugger_present_count)
            \o SetField("stability", "debugger_not_present_count",
                        debugger_not_present_count)
            \o WritePluginStabilityElements(plugin_list)
            \o EndElement

(* --------------------- the environment of a report -------------------- *)

\* base::StringToInt on the values the install-date pref takes in the
\* model: (success, output).
StringToInt(s) ==
    CASE s = "12" -> [success |-> TRUE, output |-> 12]
      [] s = "0" -> [success |-> TRUE, output |-> 0]
      [] s = "" -> [success |-> FALSE, output |-> 0]
      [] OTHER -> [success |-> FALSE, output |-> 0]

\* GetInstallDate(GetPrefService()): the pref service is there; the
\* string of the timestamp, or "0" if none was found.
GetInstallDate == IF install_date.set THEN install_date.s ELSE "0"

WriteInstallElement ==
    StartElement("install")
        \o WriteAttribute("installdate", GetInstallDate)
        \o WriteIntAttribute("buildid", 0)
        \o EndElement

\* One item of the loop of WritePluginList.
WritePluginListItem(item, plugin_prefs, write_as_xml) ==
    IF write_as_xml
    THEN StartElement("plugin")
             \o WriteAttribute("name", CreateHashes(UTF16ToUTF8(item.name)))
             \o WriteAttribute("filename", CreateHashes(item.filename))
             \o WriteAttribute("version", UTF16ToUTF8(item.version))
             \o (IF plugin_prefs
                 THEN WriteIntAttribute("disabled",
                                        IF item.enabled THEN 0 ELSE 1)
                 ELSE << >>)
             \o EndElement
    ELSE AddRepeated("plugin", SetPluginInfo(item, plugin_prefs))

RECURSIVE WritePluginListLoop(_, _, _, _)
WritePluginListLoop(plugin_list, i, plugin_prefs, write_as_xml) ==
    IF i > Len(plugin_list) THEN << >>
    ELSE WritePluginListItem(plugin_list[i], plugin_prefs, write_as_xml)
             \o WritePluginListLoop(plugin_list, i + 1, plugin_prefs,
                                    write_as_xml)

WritePluginList(plugin_list, write_as_xml) ==
    DCHECK(~locked)
        \o StartElement("plugins")
        \o WritePluginListLoop(plugin_list, 1, GetPluginPrefs, write_as_xml)
        \o EndElement

\* A Value of a per-profile metrics dictionary, by its type.
WriteProfileMetric(key, value) ==
    DCHECK(key # "id")
        \o (CASE value.type = "string" ->
                   StartElement("profileparam")
                       \o WriteAttribute("name", key)
                       \o WriteAttribute("value", value.s)
                       \o EndElement
              [] value.type = "boolean" ->
                   StartElement("profileparam")
                       \o WriteAttribute("name", key)
                       \o WriteIntAttribute("value", IF value.b THEN 1 ELSE 0)
                       \o EndElement
              [] value.type = "integer" ->
                   StartElement("profileparam")
                       \o WriteAttribute("name", key)
                       \o WriteIntAttribute("value", value.i)
                       \o EndElement
              [] OTHER -> NOTREACHED)

RECURSIVE WriteProfileMetricsLoop(_, _)
WriteProfileMetricsLoop(entries, i) ==
    IF i > Len(entries) THEN << >>
    ELSE WriteProfileMetric(entries[i].key, entries[i].value)
             \o WriteProfileMetricsLoop(entries, i + 1)

WriteProfileMetrics(profileidhash, profile_metrics) ==
    StartElement("userprofile")
        \o WriteAttribute("profileidhash", profileidhash)
        \o WriteProfileMetricsLoop(profile_metrics, 1)
        \o EndElement

\* The keys that start with prefs::kProfilePrefix and hold a dictionary.
RECURSIVE WriteAllProfilesMetricsLoop(_, _)
WriteAllProfilesMetricsLoop(all, i) ==
    IF i > Len(all) THEN << >>
    ELSE (IF all[i].prefixed /\ all[i].is_dictionary
          THEN WriteProfileMetrics(all[i].rest, all[i].entries)
          ELSE << >>)
             \o WriteAllProfilesMetricsLoop(all, i + 1)

WriteAllProfilesMetrics(all_profiles_metrics) ==
    WriteAllProfilesMetricsLoop(all_profiles_metrics, 1)

\* The facts the environment providers return, the same in every call.
CPUArchitecture == "x86_64"
OperatingSystemName == "Linux"
OperatingSystemVersion == "3.2"
ApplicationLocale == "en-US"
FieldTrialIds == << [name |-> 7, group |-> 1], [name |-> 8, group |-> 2] >>

RECURSIVE WriteFieldTrials(_, _)
WriteFieldTrials(field_trial_ids, i) ==
    IF i > Len(field_trial_ids) THEN << >>
    ELSE AddRepeated("field_trial",
                     [ name_id |-> field_trial_ids[i].name,
                       group_id |-> field_trial_ids[i].group ])
             \o WriteFieldTrials(field_trial_ids, i + 1)

RecordEnvironmentProto(plugin_list) ==
    LET parsed == StringToInt(GetInstallDate)
    IN  DCHECK(parsed.success)
            \o SetField("system_profile", "install_date", parsed.output)
            \o SetField("system_profile", "application_locale",
                        ApplicationLocale)
            \o SetField("hardware", "cpu_architecture", CPUArchitecture)
            \o SetField("hardware", "system_ram_mb", 2048)
            \o SetField("os", "name", OperatingSystemName)
            \o SetField("os", "version", OperatingSystemVersion)
            \o SetField("gpu", "vendor_id", 4318)
            \o SetField("gpu", "device_id", 1)
            \o SetField("gpu", "driver_version", "1.0")
            \o SetField("gpu", "driver_date", "2012-1-1")
            \o SetField("gpu", "graphics_score", 3)
            \o SetField("gpu", "gaming_score", 4)
            \o SetField("gpu", "overall_score", 5)
            \o SetField("hardware", "primary_screen_width", 1024)
            \o SetField("hardware", "primary_screen_height", 768)
            \o SetField("hardware", "screen_count", 1)
            \o WritePluginList(plugin_list, FALSE)
            \o WriteFieldTrials(FieldTrialIds, 1)

\* Lines 573-650: the cpu, memory, os, gpu, display, bookmarks and keywords
\* elements, XML only.
WriteEnvironmentElements ==
    LET num_bookmarks_on_bookmark_bar ==
            GetInteger("kNumBookmarksOnBookmarkBar")
        num_folders_on_bookmark_bar == GetInteger("kNumFoldersOnBookmarkBar")
        num_bookmarks_in_other_bookmarks_folder ==
            GetInteger("kNumBookmarksInOtherBookmarkFolder")
        num_folders_in_other_bookmarks_folder ==
            GetInteger("kNumFoldersInOtherBookmarkFolder")
    IN  StartElement("cpu")
            \o WriteAttribute("arch", CPUArchitecture)
            \o EndElement
            \o StartElement("memory")
            \o WriteIntAttribute("mb", 2048)
            \o EndElement
            \o StartElement("os")
            \o WriteAttribute("name", OperatingSystemName)
            \o WriteAttribute("version", OperatingSystemVersion)
            \o EndElement
            \o StartElement("gpu")
            \o WriteIntAttribute("vendorid", 4318)
            \o WriteIntAttribute("deviceid", 1)
            \o EndElement
            \o StartElement("display")
            \o WriteIntAttribute("xsize", 1024)
            \o WriteIntAttribute("ysize", 768)
            \o WriteIntAttribute("screens", 1)
            \o EndElement
            \o StartElement("bookmarks")
            \o StartElement("bookmarklocation")
            \o WriteAttribute("name", "full-tree")
            \o WriteIntAttribute("foldercount",
                   num_folders_on_bookmark_bar
                       + num_folders_in_other_bookmarks_folder)
            \o WriteIntAttribute("itemcount",
                   num_bookmarks_on_bookmark_bar
                       + num_bookmarks_in_other_bookmarks_folder)
            \o EndElement
            \o StartElement("bookmarklocation")
            \o WriteAttribute("name", "toolbar")
            \o WriteIntAttribute("foldercount", num_folders_on_bookmark_bar)
            \o WriteIntAttribute("itemcount", num_bookmarks_on_bookmark_bar)
            \o EndElement
            \o EndElement
            \o StartElement("keywords")
            \o WriteIntAttribute("count", GetInteger("kNumKeywords"))
            \o EndElement

RecordEnvironment(plugin_list, profile_metrics) ==
    DCHECK(~locked)
        \o StartElement("profile")
        \o WriteCommonEventAttributes
        \o WriteInstallElement
        \o WritePluginList(plugin_list, TRUE)
        \o WriteStabilityElement(plugin_list)
        \o WriteEnvironmentElements
        \o (IF profile_metrics.null THEN << >>
            ELSE WriteAllProfilesMetrics(profile_metrics.keys))
        \o RecordEnvironmentProto(plugin_list)
        \o EndElement

\* Faulty variant: the stability element is the full one of
\* RecordEnvironment.
RecordIncrementalStabilityElements_Full(plugin_list) ==
    DCHECK(~locked)
        \o StartElement("profile")
        \o WriteCommonEventAttributes
        \o WriteInstallElement
        \o WriteStabilityElement(plugin_list)
        \o EndElement

RecordIncrementalStabilityElements(plugin_list) ==
    DCHECK(~locked)
        \o StartElement("profile")
        \o WriteCommonEventAttributes
        \o WriteInstallElement
        \o StartElement("stability")
        \o WriteRequiredStabilityAttributes
        \o WriteRealtimeStabilityAttributes
        \o WritePluginStabilityElements(plugin_list)
        \o EndElement
        \o EndElement

(* --------------------------- omnibox events --------------------------- *)

\* AutocompleteInput::TypeToString.
InputTypeToString(type) ==
    CASE type = "INVALID" -> "invalid"
      [] type = "UNKNOWN" -> "unknown"
      [] type = "REQUESTED_URL" -> "requested-url"
      [] type = "URL" -> "url"
      [] type = "QUERY" -> "query"
      [] type = "FORCED_QUERY" -> "forced-query"
      [] OTHER -> ""

\* AsOmniboxEventInputType: the enumerators carry the same names.
AsOmniboxEventInputType(type) ==
    IF type \in { "INVALID", "UNKNOWN", "REQUESTED_URL", "URL", "QUERY",
                  "FORCED_QUERY" }
    THEN type ELSE "INVALID"

\* AsOmniboxEventProviderType: "" stands for a NULL provider.
AsOmniboxEventProviderType(provider) ==
    CASE provider = "" -> "UNKNOWN_PROVIDER"
      [] provider = "HistoryURL" -> "URL"
      [] provider = "HistoryContents" -> "HISTORY_CONTENTS"
      [] provider = "HistoryQuickProvider" -> "HISTORY_QUICK"
      [] provider = "Search" -> "SEARCH"
      [] provider = "Keyword" -> "KEYWORD"
      [] provider = "Builtin" -> "BUILTIN"
      [] provider = "ShortcutsProvider" -> "SHORTCUTS"
      [] provider = "ExtensionApps" -> "EXTENSION_APPS"
      [] OTHER -> "UNKNOWN_PROVIDER"

KnownProviders ==
    { "", "HistoryURL", "HistoryContents", "HistoryQuickProvider", "Search",
      "Keyword", "Builtin", "ShortcutsProvider", "ExtensionApps" }

\* AutocompleteMatch::TypeToString.
MatchTypeToString(type) ==
    CASE type = "URL_WHAT_YOU_TYPED" -> "url-what-you-typed"
      [] type = "HISTORY_URL" -> "history-url"
      [] type = "HISTORY_TITLE" -> "history-title"
      [] type = "HISTORY_BODY" -> "history-body"
      [] type = "HISTORY_KEYWORD" -> "history-keyword"
      [] type = "NAVSUGGEST" -> "navsuggest"
      [] type = "SEARCH_WHAT_YOU_TYPED" -> "search-what-you-typed"
      [] type = "SEARCH_HISTORY" -> "search-history"
      [] type = "SEARCH_SUGGEST" -> "search-suggest"
      [] type = "SEARCH_OTHER_ENGINE" -> "search-other-engine"
      [] type = "EXTENSION_APP" -> "extension-app"
      [] OTHER -> ""

KnownMatchTypes ==
    { "URL_WHAT_YOU_TYPED", "HISTORY_URL", "HISTORY_TITLE", "HISTORY_BODY",
      "HISTORY_KEYWORD", "NAVSUGGEST", "SEARCH_WHAT_YOU_TYPED",
      "SEARCH_HISTORY", "SEARCH_SUGGEST", "SEARCH_OTHER_ENGINE",
      "EXTENSION_APP" }

AsOmniboxEventResultType(type) ==
    IF type \in KnownMatchTypes THEN type ELSE "UNKNOWN_RESULT_TYPE"

\* Tokenize(text, kWhitespaceUTF16, &terms): the number of maximal runs of
\* code units that are not whitespace.
RECURSIVE Tokenize(_, _)
Tokenize(text, in_token) ==
    IF text = << >> THEN 0
    ELSE IF text[1] \in { 9, 10, 11, 12, 13, 32 }
    THEN Tokenize(Tail(text), FALSE)
    ELSE (IF in_token THEN 0 ELSE 1) + Tokenize(Tail(text), TRUE)

\* The XML "autocompleteitem" element of one match.
WriteAutocompleteItem(match) ==
    LET result_type == MatchTypeToString(match.type)
    IN  StartElement("autocompleteitem")
            \o (IF match.provider # ""
                THEN WriteAttribute("provider", match.provider) ELSE << >>)
            \o (IF result_type # ""
                THEN WriteAttribute("resulttype", result_type) ELSE << >>)
            \o WriteIntAttribute("relevance", match.relevance)
            \o WriteIntAttribute("isstarred", IF match.starred THEN 1 ELSE 0)
            \o EndElement

RECURSIVE WriteAutocompleteItems(_, _)
WriteAutocompleteItems(result, i) ==
    IF i > Len(result) THEN << >>
    ELSE WriteAutocompleteItem(result[i])
             \o WriteAutocompleteItems(result, i + 1)

\* The OmniboxEventProto::Suggestion of one match.
Suggestion(match) ==
    [ provider |-> AsOmniboxEventProviderType(match.provider),
      result_type |-> AsOmniboxEventResultType(match.type),
      relevance |-> match.relevance, is_starred |-> match.starred ]

RECURSIVE Suggestions(_, _)
Suggestions(result, i) ==
    IF i > Len(result) THEN << >>
    ELSE << Suggestion(result[i]) >> \o Suggestions(result, i + 1)

\* The conversions of lines 65-142 hit NOTREACHED() on a value they do not
\* know.
RECURSIVE SuggestionsReached(_, _)
SuggestionsReached(result, i) ==
    IF i > Len(result) THEN << >>
    ELSE DCHECK(result[i].provider \in KnownProviders)
             \o DCHECK(result[i].type \in KnownMatchTypes)
             \o SuggestionsReached(result, i + 1)

\* Faulty variant: the event is appended and not counted.
IncrementNumEvents_Skipped == << >>

\* ++num_events_
IncrementNumEvents == Effect("event", "", "", "")

RecordOmniboxOpenedURL(log) ==
    LET num_terms == Tokenize(log.text, FALSE)
        input_type == InputTypeToString(log.input_type)
        omnibox_event ==
            (IF log.tab_id # -1 THEN "tab_id" :> log.tab_id ELSE << >>)
            @@ (IF log.elapsed_ms # -1
                THEN "typing_duration_ms" :> log.elapsed_ms ELSE << >>)
            @@ [ time |-> now \div TicksPerSecond,
                 typed_length |-> Len(log.text),
                 num_typed_terms |-> num_terms,
                 selected_index |-> log.selected_index,
                 completed_length |-> log.inline_autocompleted_length,
                 input_type |-> AsOmniboxEventInputType(log.input_type),
                 suggestion |-> Suggestions(log.result, 1) ]
    IN  DCHECK(~locked)
            \o StartElement("uielement")
            \o WriteAttribute("action", "autocomplete")
            \o WriteAttribute("targetidhash", "")
            \o WriteIntAttribute("window", 0)
            \o (IF log.tab_id # -1
                THEN WriteIntAttribute("tab", log.tab_id) ELSE << >>)
            \o WriteCommonEventAttributes
            \o StartElement("autocomplete")
            \o WriteIntAttribute("typedlength", Len(log.text))
            \o WriteIntAttribute("numterms", num_terms)
            \o WriteIntAttribute("selectedindex", log.selected_index)
            \o WriteIntAttribute("completedlength",
                                 log.inline_autocompleted_length)
            \o (IF log.elapsed_ms # -1
                THEN WriteInt64Attribute("typingduration", log.elapsed_ms)
                ELSE << >>)
            \o (IF input_type # ""
                THEN WriteAttribute("inputtype", input_type) ELSE << >>)
            \o WriteAutocompleteItems(log.result, 1)
            \o EndElement
            \* the protobuf version
            \o AddRepeated("omnibox_event", omnibox_event)
            \o DCHECK(AsOmniboxEventInputType(log.input_type) = log.input_type)
            \o SuggestionsReached(log.result, 1)
            \o IncrementNumEvents
            \o EndElement

(* ------------------------- inputs of the model ------------------------ *)

\* Plugin inventories a caller passes (with GetPluginPrefs() there or NULL).
Inventories ==
    << << >>, << PluginFoo >>, << PluginFoo, PluginFoo2 >>,
       << PluginBar, PluginFoo2, PluginFoo >>, << PluginEAcute >> >>

\* Values of the kStabilityPluginStats list collaborators leave behind.
UsageLists ==
    << << UsageFoo >>, << UsageBar, UsageFoo >>,
       << UsageNotDict, UsageFoo >>, << UsageEAcute, UsageNoName >>,
       << UsageFoo, UsageFoo >> >>

\* all_profiles_metrics arguments: NULL, or the keys in map order.
NoProfileMetrics == [ null |-> TRUE, keys |-> << >> ]
ProfileMetricsInputs ==
    << NoProfileMetrics,
       [ null |-> FALSE,
         keys |-> << [ prefixed |-> TRUE, is_dictionary |-> TRUE,
                       rest |-> "h1",
                       entries |->
                         << [ key |-> "a",
                              value |-> [ type |-> "string", s |-> "x" ] ],
                            [ key |-> "b",
                              value |-> [ type |-> "boolean", b |-> TRUE ] ],
                            [ key |-> "c",
                              value |-> [ type |-> "integer", i |-> 5 ] ],
                            [ key |-> "d",
                              value |-> [ type |-> "double" ] ],
                            [ key |-> "e",
                              value |-> [ type |-> "integer", i |-> 1 ] ] >> ],
                     [ prefixed |-> FALSE, is_dictionary |-> TRUE,
                       rest |-> "other", entries |-> << >> ] >> ] >>

\* AutocompleteLog arguments.
OmniboxLogs ==
    << [ text |-> << 97, 32, 98 >>, input_type |-> "QUERY", tab_id |-> -1,
         selected_index |-> 0, inline_autocompleted_length |-> 0,
         elapsed_ms |-> -1,
         result |-> << [ provider |-> "Search",
                         type |-> "SEARCH_WHAT_YOU_TYPED",
                         relevance |-> 1300, starred |-> FALSE ] >> ],
       [ text |-> << 97 >>, input_type |-> "URL", tab_id |-> 3,
         selected_index |-> 1, inline_autocompleted_length |-> 2,
         elapsed_ms |-> 40,
         result |-> << [ provider |-> "HistoryURL", type |-> "HISTORY_URL",
                         relevance |-> 1400, starred |-> TRUE ],
                       [ provider |-> "", type |-> "NAVSUGGEST",
                         relevance |-> 800, starred |-> FALSE ] >> ] >>

(* ------------------------------- Init --------------------------------- *)

\* History: the last record operation on the log, the prefs it found and
\* what it wrote to the protobuf; its XML is xml from index "from" on.
NoOp ==
    [ op |-> "none", was_locked |-> FALSE,
      counters |-> [ c \in IntegerPrefs |-> 0 ],
      incs |-> [ c \in StabilityCounters |-> 0 ], plugin_stats |-> << >>,
      from |-> 1, wrote |-> EmptyProto, events |-> 0, duration |-> 0,
      profile_metrics |-> NoProfileMetrics ]

\* The threads that call GetIncrementalUptime.
Callers == { "a", "b" }

\* No call of GetIncrementalUptime is running.  History: base is the
\* checkpoint when the first of the calls that overlap began, sum the
\* values those calls have returned, ncalls the calls begun.
NoUptimeCalls ==
    [ at |-> [ t \in Callers |-> "idle" ],
      now |-> [ t \in Callers |-> 0 ],
      incremental_time |-> [ t \in Callers |-> 0 ],
      base |-> 0, sum |-> 0, ncalls |-> 0 ]

\* History: GetIncrementalUptime has not been called.  first is the time
\* of the first call, sum the values the calls have returned, ncalls the
\* calls, initial the uninstall-metrics uptime before them.
NoUptimeHistory ==
    [ began |-> FALSE, first |-> 0, sum |-> 0, ncalls |-> 0, initial |-> 0 ]

InitStateOf(stats, date) ==
    /\ counters = [ c \in IntegerPrefs |->
                      CASE c = "kNumBookmarksOnBookmarkBar" -> 3
                        [] c = "kNumFoldersOnBookmarkBar" -> 1
                        [] c = "kNumBookmarksInOtherBookmarkFolder" -> 4
                        [] c = "kNumFoldersInOtherBookmarkFolder" -> 2
                        [] c = "kNumKeywords" -> 5
                        [] OTHER -> 0 ]
    /\ plugin_stats = stats
    /\ uptime_sec = 0
    /\ install_date = date
    /\ now = 0
    /\ last_updated_time = [ set |-> FALSE, t |-> 0 ]
    /\ xml = << >>
    /\ open = << >>
    /\ proto = EmptyProto
    /\ num_events = 0
    /\ locked = FALSE
    /\ crashed = FALSE
    /\ incs = [ c \in StabilityCounters |-> 0 ]
    /\ consumed = [ c \in StabilityCounters |-> 0 ]
    /\ last_op = NoOp
    /\ nops = 0 /\ nincs = 0 /\ nwrites = 0
    /\ pc = [ at |-> "idle", k |-> 0 ]
    /\ count_local = [ launch_count |-> 0, crash_count |-> 0, count |-> 0 ]
    /\ uptime_calls = NoUptimeCalls
    /\ uptime_history = NoUptimeHistory

\* The plugin-usage list is there and empty, the install date is set.
InitState ==
    InitStateOf([ null |-> FALSE, items |-> << >> ],
                [ set |-> TRUE, s |-> "12" ])

\* Either build, no plugins installed and no profile loaded.
Init ==
    /\ chromeos \in BOOLEAN
    /\ dcheck \in BOOLEAN
    /\ plugins = << >>
    /\ profiles_loaded = FALSE
    /\ InitState

\* Either build, two plugins installed and a profile loaded.
InitInstalled ==
    /\ chromeos \in BOOLEAN
    /\ dcheck \in BOOLEAN
    /\ plugins = << PluginFoo, PluginBar >>
    /\ profiles_loaded = TRUE
    /\ InitState

\* Any of the plugin inventories, with or without a loaded profile.
InitPlugins ==
    /\ chromeos = FALSE
    /\ dcheck \in BOOLEAN
    /\ \E i \in 1..Len(Inventories) : plugins = Inventories[i]
    /\ profiles_loaded \in BOOLEAN
    /\ InitState

\* Three plugins installed; the plugin-usage list and the install date are
\* there or absent.
InitDefaults ==
    /\ chromeos = FALSE
    /\ dcheck \in BOOLEAN
    /\ plugins = << PluginFoo, PluginBar, PluginEAcute >>
    /\ profiles_loaded \in BOOLEAN
    /\ \E stats \in { [ null |-> TRUE, items |-> << >> ],
                      [ null |-> FALSE, items |-> << >> ] },
          date \in { [ set |-> TRUE, s |-> "12" ],
                     [ set |-> FALSE, s |-> "" ] } :
           InitStateOf(stats, date)

(* ------------------------------ actions ------------------------------- *)

\* The counters a record operation reads into the report.
SnapshotCounters(op) ==
    IF op \in { "RecordEnvironment", "RecordIncrementalStabilityElements" }
    THEN RequiredCounters \cup RealtimeCounters
             \cup (IF chromeos THEN ChromeOSCounters ELSE {})
             \cup (IF op = "RecordEnvironment"
                   THEN EnvironmentCounters ELSE {})
    ELSE {}

RECURSIVE SumOf(_)
SumOf(values) ==
    IF values = << >> THEN 0 ELSE Head(values) + SumOf(Tail(values))

\* History: the calls of GetIncrementalUptime, after calls at the time
\* now that returned these values.
UptimeReturned(values) ==
    IF values = << >> THEN uptime_history
    ELSE [uptime_history EXCEPT
            !.began = TRUE,
            !.first = IF uptime_history.began THEN @ ELSE now,
            !.sum = @ + SumOf(values),
            !.ncalls = @ + Len(values)]

\* The log and the prefs as the effects of a handler leave them.
Apply(m) ==
    /\ xml' = m.xml
    /\ open' = m.open
    /\ proto' = m.proto
    /\ num_events' = m.num_events
    /\ counters' = m.counters
    /\ plugin_stats' = m.plugin_stats
    /\ uptime_sec' = m.uptime_sec
    /\ last_updated_time' = m.last_updated_time
    /\ crashed' = m.crashed
    /\ consumed' = [ c \in StabilityCounters |->
                       consumed[c] + (counters[c] - m.counters[c]) ]
    /\ uptime_history' = UptimeReturned(m.returned)

\* History: the operation op, called in this state, that leaves m.
OpRecord(op, m) ==
    [ op |-> op, was_locked |-> locked, counters |-> counters, incs |-> incs,
      plugin_stats |-> plugin_stats.items, from |-> Len(xml) + 1,
      wrote |-> m.wrote, events |-> num_events, duration |-> IncrementalTime,
      profile_metrics |-> NoProfileMetrics ]

\* The value of counter c the operation of record rec put in its report.
CarriedBy(rec, c) ==
    IF ProtoName(c) \in DOMAIN rec.wrote.stability
    THEN rec.wrote.stability[ProtoName(c)] ELSE 0

\* History: the increments no report carries yet, after the operation of
\* record rec has returned.
Unreported(rec) == [ c \in StabilityCounters |-> incs[c] - CarriedBy(rec, c) ]

\* A record operation as one step: its effects applied to the log and the
\* prefs.
Commit(effects, op, profile_metrics) ==
    \E m2 \in { Run(Ctx, effects, 1, Len(effects)) } :
        /\ Apply(m2)
        /\ incs' = IF m2.crashed THEN incs ELSE Unreported(OpRecord(op, m2))
        /\ last_op' = [OpRecord(op, m2) EXCEPT
                           !.profile_metrics = profile_metrics]
        /\ nops' = nops + 1
        /\ UNCHANGED << chromeos, dcheck, install_date, plugins,
                        profiles_loaded, now, locked, nincs, nwrites, pc,
                        count_local,
                        uptime_calls >>

CallRecordEnvironment(profile_metrics) ==
    /\ ~crashed /\ pc.at = "idle" /\ nops < MaxOps
    /\ Commit(RecordEnvironment(plugins, profile_metrics),
              "RecordEnvironment", profile_metrics)

CallRecordIncrementalStabilityElements ==
    /\ ~crashed /\ pc.at = "idle" /\ nops < MaxOps
    /\ Commit(RecordIncrementalStabilityElements(plugins),
              "RecordIncrementalStabilityElements", NoProfileMetrics)

CallRecordOmniboxOpenedURL(log) ==
    /\ ~crashed /\ pc.at = "idle" /\ nops < MaxOps
    /\ Commit(RecordOmniboxOpenedURL(log), "RecordOmniboxOpenedURL",
              NoProfileMetrics)

\* Another component calls the static MetricsLog::GetIncrementalUptime.
CallGetIncrementalUptime ==
    /\ ~crashed /\ pc.at = "idle"
    /\ uptime_history.ncalls < MaxUptimeCalls
    /\ \E m2 \in { Run(Ctx, GetIncrementalUptime, 1, 1) } : Apply(m2)
    /\ UNCHANGED << chromeos, dcheck, install_date, plugins,
                    profiles_loaded, now, locked, incs, last_op, nops,
                    nincs, nwrites, pc, count_local, uptime_calls >>

\* MetricsLogBase::CloseLog: the log is locked from here on.
CloseLog ==
    /\ ~crashed /\ pc.at = "idle" /\ ~locked
    /\ locked' = TRUE
    /\ UNCHANGED << chromeos, dcheck, counters, plugin_stats, uptime_sec,
                    install_date, plugins, profiles_loaded, now,
                    last_updated_time, xml, open, proto,
                    num_events, crashed, incs, last_op, nops, nincs, nwrites,
                    pc, count_local,
                    consumed,
                    uptime_calls, uptime_history >>

\* The MetricsLog constructor: the next report, once the last is closed.
NewLog ==
    /\ ~crashed /\ pc.at = "idle" /\ locked
    /\ xml' = << >>
    /\ open' = << >>
    /\ proto' = EmptyProto
    /\ num_events' = 0
    /\ locked' = FALSE
    /\ last_op' = NoOp
    /\ consumed' = [ c \in StabilityCounters |-> 0 ]
    /\ UNCHANGED << chromeos, dcheck, counters, plugin_stats, uptime_sec,
                    install_date, plugins, profiles_loaded, now,
                    last_updated_time, crashed, incs,
                    nops, nincs, nwrites, pc, count_local,
                    uptime_calls, uptime_history >>

\* A collaborator increments a stability counter; the OS_CHROMEOS counters
\* exist in that build alone.
Increment(c) ==
    /\ ~crashed /\ nincs < MaxIncrements
    /\ c \in ChromeOSCounters => chromeos
    /\ counters' = [counters EXCEPT ![c] = @ + 1]
    /\ incs' = [incs EXCEPT ![c] = @ + 1]
    /\ nincs' = nincs + 1
    /\ UNCHANGED << chromeos, dcheck, plugin_stats, uptime_sec,
                    install_date, plugins, profiles_loaded,
                    now, last_updated_time, xml, open, proto, num_events,
                    locked, crashed, last_op, nops, nwrites, pc,
                    count_local,
                    consumed,
                    uptime_calls, uptime_history >>

\* A collaborator persists the plugin-usage list.
SetPluginStats(items) ==
    /\ ~crashed /\ pc.at = "idle" /\ nwrites < MaxPluginWrites
    /\ plugin_stats' = [ null |-> FALSE, items |-> items ]
    /\ nwrites' = nwrites + 1
    /\ UNCHANGED << chromeos, dcheck, counters, uptime_sec,
                    install_date, plugins, profiles_loaded,
                    now, last_updated_time, xml, open, proto, num_events,
                    locked, crashed, incs, last_op, nops, nincs, pc,
                    count_local,
                    consumed,
                    uptime_calls, uptime_history >>

\* Time passes.
Tick ==
    /\ ~crashed /\ now < MaxTime
    /\ now' = now + 1
    /\ UNCHANGED << chromeos, dcheck, counters, plugin_stats, uptime_sec,
                    install_date, plugins, profiles_loaded,
                    last_updated_time, xml, open, proto,
                    num_events, locked, crashed, incs, last_op, nops, nincs,
                    nwrites, pc, count_local,
                    consumed,
                    uptime_calls, uptime_history >>

(* ------------- RecordIncrementalStabilityElements, stepwise ------------ *)

\* The operation one pref access at a time, for the runs in which another
\* thread increments a counter while the snapshot is taken.  pc.at is
\* "get" before the GetInteger of counter SnapshotOrder[pc.k], "set" before
\* its SetInteger, "end" after the last counter.
SnapshotOrder ==
    << "kStabilityLaunchCount", "kStabilityCrashCount",
       "kStabilityPageLoadCount", "kStabilityRendererCrashCount",
       "kStabilityExtensionRendererCrashCount",
       "kStabilityRendererHangCount", "kStabilityChildProcessCrashCount" >>
        \o (IF chromeos
            THEN << "kStabilityOtherUserCrashCount",
                    "kStabilityKernelCrashCount",
                    "kStabilitySystemUncleanShutdownCount" >>
            ELSE << >>)

NextPc(k) ==
    IF k < Len(SnapshotOrder) THEN [ at |-> "get", k |-> k + 1 ]
    ELSE [ at |-> "end", k |-> 0 ]

\* A step of the operation: its effects on the log and the prefs, with the
\* history of what the operation has written so far.
StepCommit(effects, rec) ==
    \E m2 \in { Run([Ctx EXCEPT !.wrote = rec.wrote], effects, 1,
                     Len(effects)) } :
        /\ Apply(m2)
        /\ last_op' = [rec EXCEPT !.wrote = m2.wrote]

\* Lines 243-253: up to the opening of the stability element.
BeginSnapshot ==
    /\ ~crashed /\ pc.at = "idle" /\ nops < MaxOps
    /\ StepCommit(DCHECK(~locked)
                      \o StartElement("profile")
                      \o WriteCommonEventAttributes
                      \o WriteInstallElement
                      \o StartElement("stability"),
                  OpRecord("RecordIncrementalStabilityElements",
                           [wrote |-> EmptyProto]))
    /\ pc' = [ at |-> "get", k |-> 1 ]
    /\ UNCHANGED << chromeos, dcheck, install_date, plugins,
                    profiles_loaded, now, locked, incs, nops, nincs,
                    nwrites, count_local,
                    uptime_calls >>

\* pref->GetInteger, lines 420, 422 and 443-493: a realtime counter that is
\* not zero is written to the log here, before it is reset.
ReadCounter ==
    /\ ~crashed /\ pc.at = "get"
    /\ LET c == SnapshotOrder[pc.k]
           count == GetInteger(c)
       IN  /\ count_local' =
                  IF c = "kStabilityLaunchCount"
                  THEN [count_local EXCEPT !.launch_count = count]
                  ELSE IF c = "kStabilityCrashCount"
                  THEN [count_local EXCEPT !.crash_count = count]
                  ELSE [count_local EXCEPT !.count = count]
           /\ pc' = IF c \in RequiredCounters \/ count # 0
                    THEN [ at |-> "set", k |-> pc.k ] ELSE NextPc(pc.k)
           /\ StepCommit(IF c \in RequiredCounters \/ count = 0 THEN << >>
                         ELSE (IF c \in RealtimeCounters
                               THEN WriteIntAttribute(XmlName(c), count)
                               ELSE << >>)
                                  \o SetField("stability", ProtoName(c),
                                              count),
                         last_op)
    /\ UNCHANGED << chromeos, dcheck, install_date, plugins,
                    profiles_loaded, now, locked, incs, nops, nincs,
                    nwrites,
                    uptime_calls >>

\* pref->SetInteger(..., 0), lines 421, 423 and 447-494; after the second
\* required counter its lines 426-433 write both.
ResetCounter ==
    /\ ~crashed /\ pc.at = "set"
    /\ LET c == SnapshotOrder[pc.k]
       IN  StepCommit(SetInteger(c, 0)
                          \o (IF c = "kStabilityCrashCount"
                              THEN WriteIntAttribute("launchcount",
                                       count_local.launch_count)
                                   \o WriteIntAttribute("crashcount",
                                          count_local.crash_count)
                                   \o SetField("stability", "launch_count",
                                               count_local.launch_count)
                                   \o SetField("stability", "crash_count",
                                               count_local.crash_count)
                              ELSE << >>),
                      last_op)
    /\ pc' = NextPc(pc.k)
    /\ UNCHANGED << chromeos, dcheck, install_date, plugins,
                    profiles_loaded, now, locked, incs, nops, nincs,
                    nwrites, count_local,
                    uptime_calls >>

\* Lines 498-502 and 257-259: the uptime, the plugin stability elements,
\* and the two elements closed; the operation returns.
EndSnapshot ==
    /\ ~crashed /\ pc.at = "end"
    /\ \E m2 \in { LET effects ==
                        GetIncrementalUptime
                            \o (IF IncrementalTime # 0
                                THEN WriteInt64Attribute("uptimesec",
                                                         IncrementalTime)
                                         \o SetField("stability",
                                                     "uptime_sec",
                                                     IncrementalTime)
                                ELSE << >>)
                            \o WritePluginStabilityElements(plugins)
                            \o EndElement
                            \o EndElement
                    IN  Run([Ctx EXCEPT !.wrote = last_op.wrote], effects, 1,
                            Len(effects)) } :
          /\ Apply(m2)
          /\ last_op' = [last_op EXCEPT !.wrote = m2.wrote]
          /\ incs' = IF m2.crashed THEN incs
                     ELSE Unreported([last_op EXCEPT !.wrote = m2.wrote])
    /\ pc' = [ at |-> "idle", k |-> 0 ]
    /\ nops' = nops + 1
    /\ UNCHANGED << chromeos, dcheck, install_date, plugins,
                    profiles_loaded, now, locked, nincs, nwrites,
                    count_local,
                    uptime_calls >>

(* -------------------- GetIncrementalUptime, stepwise ------------------- *)

\* The function one statement at a time, for the runs in which two threads
\* call it at once.  Nothing in it synchronizes the callers.

\* What a step of a call leaves alone.
UptimeCallFrame ==
    UNCHANGED << chromeos, dcheck, counters, plugin_stats, install_date,
                 plugins, profiles_loaded, now, xml, open, proto,
                 num_events, locked, crashed, incs, consumed, last_op, nops,
                 nincs, nwrites, pc, count_local >>

\* Lines 201-202: the caller reads the clock; the first caller of the
\* process initializes the static to that time.
BeginUptime(t) ==
    /\ uptime_calls.at[t] = "idle"
    /\ uptime_calls.ncalls < MaxUptimeCalls
    /\ last_updated_time' =
           IF last_updated_time.set THEN last_updated_time
           ELSE [ set |-> TRUE, t |-> now ]
    /\ uptime_calls' =
           [uptime_calls EXCEPT
              !.at[t] = "compute",
              !.now[t] = now,
              !.ncalls = @ + 1,
              !.base = IF \A u \in Callers : uptime_calls.at[u] = "idle"
                       THEN last_updated_time'.t ELSE @,
              !.sum = IF \A u \in Callers : uptime_calls.at[u] = "idle"
                      THEN 0 ELSE @]
    /\ uptime_sec' = uptime_sec
    /\ uptime_history' = uptime_history
    /\ UptimeCallFrame

\* Line 203: incremental_time = (now - last_updated_time).InSeconds().
ComputeUptime(t) ==
    /\ uptime_calls.at[t] = "compute"
    /\ uptime_calls' =
           [uptime_calls EXCEPT
              !.at[t] = "store",
              !.incremental_time[t] =
                  (uptime_calls.now[t] - last_updated_time.t)
                      \div TicksPerSecond]
    /\ UNCHANGED << last_updated_time, uptime_sec, uptime_history >>
    /\ UptimeCallFrame

\* Line 204: last_updated_time = now.
StoreCheckpoint(t) ==
    /\ uptime_calls.at[t] = "store"
    /\ last_updated_time' = [ set |-> TRUE, t |-> uptime_calls.now[t] ]
    /\ uptime_calls' = [uptime_calls EXCEPT !.at[t] = "return"]
    /\ uptime_sec' = uptime_sec
    /\ uptime_history' = uptime_history
    /\ UptimeCallFrame

\* Lines 206-212: the uninstall-metrics uptime, and the value returned.
ReturnUptime(t) ==
    /\ uptime_calls.at[t] = "return"
    /\ uptime_sec' = IF uptime_calls.incremental_time[t] > 0
                     THEN uptime_sec + uptime_calls.incremental_time[t]
                     ELSE uptime_sec
    /\ uptime_calls' =
           [uptime_calls EXCEPT
              !.at[t] = "idle",
              !.sum = @ + uptime_calls.incremental_time[t]]
    /\ last_updated_time' = last_updated_time
    /\ uptime_history' =
           [uptime_history EXCEPT
              !.began = TRUE,
              !.first = IF uptime_history.began
                        THEN @ ELSE uptime_calls.now[t],
              !.sum = @ + uptime_calls.incremental_time[t],
              !.ncalls = @ + 1]
    /\ UptimeCallFrame

(* --------------------------- specifications --------------------------- *)

\* The stability counters over successive reports, no plugins.
Next ==
    \/ \E c \in IncrementedCounters : Increment(c)
    \/ CallRecordEnvironment(NoProfileMetrics)
    \/ CallRecordIncrementalStabilityElements
    \/ CloseLog
    \/ NewLog

Spec == Init /\ [][Next]_vars

\* The stability counters and the uptime as time passes, on one log.
NextUptime ==
    \/ \E c \in IncrementedCounters
                 \cap (RealtimeCounters \cup ChromeOSCounters) :
           Increment(c)
    \/ Tick
    \/ CallRecordEnvironment(NoProfileMetrics)
    \/ CallRecordIncrementalStabilityElements

SpecUptime == Init /\ [][NextUptime]_vars

\* The plugin-usage list against the plugin inventory.
NextPlugins ==
    \/ \E i \in 1..Len(UsageLists) : SetPluginStats(UsageLists[i])
    \/ \E i \in 1..Len(ProfileMetricsInputs) :
           CallRecordEnvironment(ProfileMetricsInputs[i])
    \/ CallRecordIncrementalStabilityElements

SpecPlugins == InitPlugins /\ [][NextPlugins]_vars

\* Records that lack fields, a list and an install date that are absent.
\* Every record that has a name has the name of an installed plugin.
PartialUsageLists ==
    << << UsageFoo >>, << UsageBar >>, << UsageEAcute, UsageFoo >>,
       << UsageBar, UsageNoName >> >>

NextDefaults ==
    \/ \E i \in 1..Len(PartialUsageLists) :
           SetPluginStats(PartialUsageLists[i])
    \/ CallRecordEnvironment(NoProfileMetrics)
    \/ CallRecordIncrementalStabilityElements

SpecDefaults == InitDefaults /\ [][NextDefaults]_vars

\* A snapshot taken while another thread increments the counters.
NextSteps ==
    \/ \E c \in IncrementedCounters
                 \cap (RequiredCounters \cup RealtimeCounters) :
           Increment(c)
    \/ BeginSnapshot
    \/ ReadCounter
    \/ ResetCounter
    \/ EndSnapshot

SpecSteps == Init /\ [][NextSteps]_vars

\* Omnibox events among the other record operations, on successive logs.
NextOmnibox ==
    \/ \E i \in 1..Len(OmniboxLogs) :
           CallRecordOmniboxOpenedURL(OmniboxLogs[i])
    \/ CallRecordEnvironment(NoProfileMetrics)
    \/ CallRecordIncrementalStabilityElements
    \/ Tick
    \/ CloseLog
    \/ NewLog

SpecOmnibox == Init /\ [][NextOmnibox]_vars

\* The calls of GetIncrementalUptime, one after the other, by the
\* snapshots and by other components, as time passes.
NextUptimeTotal ==
    \/ Tick
    \/ CallGetIncrementalUptime
    \/ CallRecordEnvironment(NoProfileMetrics)
    \/ CallRecordIncrementalStabilityElements

SpecUptimeTotal == Init /\ [][NextUptimeTotal]_vars

\* Two threads in GetIncrementalUptime as time passes.
NextUptimeCalls ==
    \/ \E t \in Callers : BeginUptime(t)
    \/ \E t \in Callers : ComputeUptime(t)
    \/ \E t \in Callers : StoreCheckpoint(t)
    \/ \E t \in Callers : ReturnUptime(t)
    \/ Tick

SpecUptimeCalls == Init /\ [][NextUptimeCalls]_vars

\* The two stability snapshots over counters and plugin usage, with
\* plugins installed.
NextSnapshots ==
    \/ \E c \in IncrementedCounters
                 \cap (RequiredCounters \cup EnvironmentCounters) :
           Increment(c)
    \/ SetPluginStats(<< UsageFoo >>)
    \/ CallRecordEnvironment(NoProfileMetrics)
    \/ CallRecordIncrementalStabilityElements

SpecSnapshots == InitInstalled /\ [][NextSnapshots]_vars

(* ------------------------------ properties ---------------------------- *)

SnapshotOps == { "RecordEnvironment", "RecordIncrementalStabilityElements" }

\* The last operation on the log was a stability snapshot and has returned.
SnapshotReturned == last_op.op \in SnapshotOps /\ pc.at = "idle" /\ ~crashed

\* The XML the last record operation wrote.
OpXml == SubSeq(xml, last_op.from, Len(xml))

\* The events of that name that open an element.
StartsOf(events, name) ==
    { i \in 1..Len(events) :
        events[i].t = "start" /\ events[i].name = name }

\* The attributes of the element event i opens: the attribute events that
\* follow it.
AttrsOf(events, i) ==
    { << events[j].name, events[j].value >> :
        j \in { k \in (i + 1)..Len(events) :
                  \A l \in (i + 1)..k : events[l].t = "attr" } }

\* The attributes of the stability element of the last snapshot.
StabilityAttrs ==
    UNION { AttrsOf(OpXml, i) : i \in StartsOf(OpXml, "stability") }

\* The Stability message fields the last snapshot set.
StabilityFields == last_op.wrote.stability

\* C1: after a stability snapshot has returned, every stability counter and
\* the uptime it wrote to one encoding is in the other with the same value
\* (a protobuf field of the Stability message against the attribute of the
\* XML stability element), and the XML holds as many pluginstability
\* elements as the protobuf holds plugin_stability entries.
C1_DualEncodingEquivalence ==
    SnapshotReturned =>
        /\ \A c \in StabilityCounters :
              /\ ProtoName(c) \in DOMAIN StabilityFields
                    => << XmlName(c), ToString(StabilityFields[ProtoName(c)]) >>
                           \in StabilityAttrs
              /\ (\E a \in StabilityAttrs : a[1] = XmlName(c))
                    => ProtoName(c) \in DOMAIN StabilityFields
        /\ "uptime_sec" \in DOMAIN StabilityFields
              <=> (\E a \in StabilityAttrs : a[1] = "uptimesec")
        /\ "uptime_sec" \in DOMAIN StabilityFields
              => << "uptimesec", ToString(StabilityFields["uptime_sec"]) >>
                     \in StabilityAttrs
        /\ Cardinality(StartsOf(OpXml, "pluginstability"))
              = Len(last_op.wrote.plugin_stability)

\* C2: a stability snapshot that has returned carries, for every counter
\* it includes, exactly the increments no earlier report carried: the
\* increments applied since the previous snapshot of that counter, never
\* those of an earlier report again.  The value is the one of the protobuf
\* field and, for a counter the XML names, of the XML attribute.
C2_NoDoubleCount ==
    SnapshotReturned =>
        \A c \in SnapshotCounters(last_op.op) :
            /\ CarriedBy(last_op, c) = last_op.incs[c]
            /\ (c \in RequiredCounters \cup EnvironmentCounters
                   \/ (c \in RealtimeCounters /\ last_op.incs[c] # 0))
                  => << XmlName(c), ToString(last_op.incs[c]) >>
                         \in StabilityAttrs

\* Two snapshots on one log, one launch before each: each carries 1.
C2_Witness ==
    /\ SnapshotReturned /\ nops = 2 /\ nincs = 2
    /\ last_op.incs["kStabilityLaunchCount"] = 1
    /\ CarriedBy(last_op, "kStabilityLaunchCount") = 1
    /\ Cardinality({ i \in 1..Len(xml) :
                       xml[i] = [ t |-> "attr", name |-> "launchcount",
                                  value |-> "1" ] }) = 2

\* C3: when RecordEnvironment returns, every counter of its snapshot is 0 in
\* the backing store and the report carries the value the counter had when
\* the operation was called.
C3_ReadAndReset ==
    [][ (nops' = nops + 1 /\ ~crashed'
            /\ last_op'.op = "RecordEnvironment")
        => \A c \in SnapshotCounters("RecordEnvironment") :
               /\ counters'[c] = 0
               /\ CarriedBy(last_op', c) = counters[c] ]_vars

\* RecordEnvironment has returned: it found two page loads, reported them,
\* and the counter reads 0; a counter never incremented reads 0 too.
C3_Witness ==
    /\ SnapshotReturned /\ last_op.op = "RecordEnvironment"
    /\ last_op.counters["kStabilityPageLoadCount"] = 2
    /\ CarriedBy(last_op, "kStabilityPageLoadCount") = 2
    /\ counters["kStabilityPageLoadCount"] = 0
    /\ counters["kStabilityRendererHangCount"] = 0

\* C4: whatever increments another thread applies while a snapshot is
\* taken, none is lost and none is read twice: once the snapshot has
\* returned, every increment no report carries is still in the counter,
\* and the counter holds nothing else.
C4_AtomicReadAndReset ==
    (pc.at = "idle" /\ ~crashed)
        => \A c \in StabilityCounters : counters[c] = incs[c]

\* The counters of the build that are written only when they are not zero.
OptionalCounters ==
    RealtimeCounters \cup (IF chromeos THEN ChromeOSCounters ELSE {})

\* C5: in a stability snapshot that has returned, a realtime or platform
\* counter, or the uptime, that was zero is in neither encoding, and one that
\* was not zero is in the protobuf with its value, and in the XML too when
\* the XML names it; the launch and crash counts are in both encodings
\* whatever their value.
C5_ZeroSuppression ==
    SnapshotReturned =>
        /\ \A c \in OptionalCounters :
              IF last_op.counters[c] = 0
              THEN /\ ProtoName(c) \notin DOMAIN StabilityFields
                   /\ ~\E a \in StabilityAttrs : a[1] = XmlName(c)
              ELSE /\ ProtoName(c) \in DOMAIN StabilityFields
                   /\ StabilityFields[ProtoName(c)] = last_op.counters[c]
                   /\ c \in RealtimeCounters
                         => << XmlName(c), ToString(last_op.counters[c]) >>
                                \in StabilityAttrs
        /\ IF last_op.duration = 0
           THEN /\ "uptime_sec" \notin DOMAIN StabilityFields
                /\ ~\E a \in StabilityAttrs : a[1] = "uptimesec"
           ELSE /\ "uptime_sec" \in DOMAIN StabilityFields
                /\ StabilityFields["uptime_sec"] = last_op.duration
                /\ << "uptimesec", ToString(last_op.duration) >>
                       \in StabilityAttrs
        /\ \A c \in RequiredCounters :
              /\ ProtoName(c) \in DOMAIN StabilityFields
              /\ StabilityFields[ProtoName(c)] = last_op.counters[c]
              /\ << XmlName(c), ToString(last_op.counters[c]) >>
                     \in StabilityAttrs

\* A snapshot of one page load and a second of uptime: both are written,
\* the renderer crashes (zero) are not, the launch and crash counts (zero)
\* are.
C5_Witness ==
    /\ SnapshotReturned
    /\ last_op.counters["kStabilityPageLoadCount"] = 1
    /\ << "pageloadcount", "1" >> \in StabilityAttrs
    /\ last_op.duration = 1
    /\ << "uptimesec", "1" >> \in StabilityAttrs
    /\ "renderer_crash_count" \notin DOMAIN StabilityFields
    /\ << "launchcount", "0" >> \in StabilityAttrs
    /\ << "crashcount", "0" >> \in StabilityAttrs

\* The name of a persisted plugin-usage record ("" when it has none).
RecordName(item) == DictGet(item.dict, "name", << >>)

\* The record is a dictionary whose name is the name of an installed plugin.
MatchesInstalled(item) ==
    /\ item.type = "dictionary"
    /\ \E j \in 1..Len(plugins) :
           plugins[j].name = UTF8ToUTF16(RecordName(item))

\* The records of the last snapshot that match, in the order of the list.
MatchedRecords == SelectSeq(last_op.plugin_stats, MatchesInstalled)

\* The plugin_stability entries the last snapshot added to the protobuf.
PluginStabilityEntries == last_op.wrote.plugin_stability

\* C6: a stability snapshot that has returned added one plugin_stability
\* entry for each persisted record whose name is the name of an item of the
\* inventory, in the order of the records and no other entry, with the
\* launch, instance and crash counts of the record and the version of an
\* inventory item of that name; the XML holds a pluginstability element
\* with the same counts.
C6_CorrelationCompleteness ==
    SnapshotReturned =>
        /\ Len(PluginStabilityEntries) = Len(MatchedRecords)
        /\ \A i \in 1..Len(MatchedRecords) :
              LET rec == MatchedRecords[i].dict
                  out == PluginStabilityEntries[i]
              IN  /\ out.launch_count = DictGet(rec, "launches", 0)
                  /\ out.instance_count = DictGet(rec, "instances", 0)
                  /\ out.crash_count = DictGet(rec, "crashes", 0)
                  /\ \E j \in 1..Len(plugins) :
                         /\ plugins[j].name
                               = UTF8ToUTF16(RecordName(MatchedRecords[i]))
                         /\ out.plugin.version
                               = UTF16ToUTF8(plugins[j].version)
                  /\ \E e \in StartsOf(OpXml, "pluginstability") :
                         { << "filename",
                              CreateHashes(RecordName(MatchedRecords[i])) >>,
                           << "launchcount", ToString(out.launch_count) >>,
                           << "instancecount",
                              ToString(out.instance_count) >>,
                           << "crashcount", ToString(out.crash_count) >> }
                             \subseteq AttrsOf(OpXml, e)

\* Records for "Bar" (not installed) and "Foo" (installed, version "1.0"):
\* one entry, for Foo, with its two crashes.
C6_Witness ==
    /\ SnapshotReturned
    /\ last_op.plugin_stats = << UsageBar, UsageFoo >>
    /\ plugins = << PluginFoo >>
    /\ Len(PluginStabilityEntries) = 1
    /\ PluginStabilityEntries[1].crash_count = 2
    /\ PluginStabilityEntries[1].plugin.version = << 49, 46, 48 >>

\* C7: every plugin stability entry of a snapshot that has returned carries
\* the hash of the plugin name: the XML pluginstability element of a record
\* has the hash of the record's name, and the name of a protobuf entry is
\* the raw name of none of the records.
C7_AnonymizedPluginName ==
    SnapshotReturned =>
        /\ \A i \in StartsOf(OpXml, "pluginstability") :
              \E k \in 1..Len(last_op.plugin_stats) :
                  /\ last_op.plugin_stats[k].type = "dictionary"
                  /\ << "filename",
                        CreateHashes(RecordName(last_op.plugin_stats[k])) >>
                         \in AttrsOf(OpXml, i)
        /\ \A i \in 1..Len(PluginStabilityEntries) :
              \A k \in 1..Len(last_op.plugin_stats) :
                  last_op.plugin_stats[k].type = "dictionary"
                      => PluginStabilityEntries[i].plugin.name
                             # RecordName(last_op.plugin_stats[k])

\* C8: in a stability snapshot that has returned, a persisted record that
\* matches no item of the inventory has no plugin stability output in
\* either encoding: the XML pluginstability elements and the protobuf
\* plugin_stability entries are those of the matching records.
C8_UnmatchedRecordFault ==
    SnapshotReturned =>
        /\ Len(PluginStabilityEntries) = Len(MatchedRecords)
        /\ Cardinality(StartsOf(OpXml, "pluginstability"))
              = Len(MatchedRecords)

\* C10: whenever no operation is running and the process has not died,
\* no XML element is open and the XML holds as many closings as openings:
\* every record operation closed what it opened, on the paths that skip a
\* plugin record or a profile metric too.
C10_WellFormedNesting ==
    (pc.at = "idle" /\ ~crashed) =>
        /\ open = << >>
        /\ Cardinality({ i \in 1..Len(xml) : xml[i].t = "start" })
              = Cardinality({ i \in 1..Len(xml) : xml[i].t = "end" })

\* RecordEnvironment has returned, in a build without DCHECKs, from a list
\* with a value that is no dictionary and a record of a plugin that is not
\* installed, and from a profile metric of an unknown type.
C10_Witness ==
    /\ SnapshotReturned /\ ~dcheck /\ last_op.op = "RecordEnvironment"
    /\ last_op.plugin_stats = << UsageNotDict, UsageFoo >>
    /\ plugins = << >>
    /\ Cardinality(StartsOf(OpXml, "pluginstability")) = 1
    /\ \E i \in StartsOf(OpXml, "profileparam") :
           << "name", "e" >> \in AttrsOf(OpXml, i)
    /\ open = << >>

\* C9: a record operation called on a locked log raises a fault and leaves
\* both encodings, the event count and the persisted counters as they were;
\* a locked log stays locked until the next log is constructed.
C9_LockImmutability ==
    [][ /\ (locked /\ nops' = nops + 1)
             => /\ crashed'
                /\ xml' = xml /\ proto' = proto
                /\ num_events' = num_events
                /\ counters' = counters
        /\ (locked /\ ~locked') => xml' = << >> ]_vars

\* The value uma_proto() carries for counter c (0 when the field is not
\* set).
ProtoCarries(c) ==
    IF ProtoName(c) \in DOMAIN proto.stability
    THEN proto.stability[ProtoName(c)] ELSE 0

\* C11: whenever no record operation is running on the log, the protobuf
\* carries for every stability counter the total the operations on this log
\* have reset in the prefs: no later snapshot erases what an earlier one
\* of the same log consumed.
C11_NoMetricLost ==
    (pc.at = "idle" /\ ~crashed) =>
        \A c \in StabilityCounters : ProtoCarries(c) = consumed[c]

\* C12: a record operation that returns leaves the persisted plugin-usage
\* list empty, and one that finds the list empty writes no plugin stability
\* entry, in the protobuf or in the XML: the counts of an earlier report do
\* not reappear.
C12_PluginCountersConsumed ==
    [][ (nops' = nops + 1 /\ ~crashed')
        => /\ plugin_stats'.items = << >>
           /\ plugin_stats.items = << >>
                 => /\ last_op'.wrote.plugin_stability = << >>
                    /\ StartsOf(SubSeq(xml', last_op'.from, Len(xml')),
                                "pluginstability") = {} ]_vars

\* Two snapshots after one write of the list: the first added the entry
\* the log holds, the second found the list empty and added none.
C12_Witness ==
    /\ SnapshotReturned /\ nops = 2 /\ nwrites = 1
    /\ Len(proto.plugin_stability) = 1
    /\ last_op.plugin_stats = << >>
    /\ PluginStabilityEntries = << >>
    /\ plugin_stats.items = << >>

\* The record is a dictionary whose name is the name of no installed plugin.
Unmatched(item) == item.type = "dictionary" /\ ~MatchesInstalled(item)

\* C13: a record operation called with a persisted record that matches no
\* item of the inventory runs to its end, and the protobuf gets a plugin
\* stability entry for every other record that has a match, before or after
\* the unmatched one in the list.
C13_UnmatchedDoesNotAbort ==
    [][ (/\ nops' = nops + 1
         /\ \E k \in 1..Len(plugin_stats.items) :
                Unmatched(plugin_stats.items[k]))
        => /\ ~crashed'
           /\ open' = << >>
           /\ Len(PluginStabilityEntries') = Len(MatchedRecords')
           /\ \A i \in 1..Len(MatchedRecords') :
                  PluginStabilityEntries'[i].crash_count
                      = DictGet(MatchedRecords'[i].dict, "crashes", 0) ]_vars

\* The value types WriteProfileMetrics has a case for.
KnownValueTypes == { "string", "boolean", "integer" }

\* The profiles of the argument whose metrics are written.
WrittenProfiles(pm) ==
    IF pm.null THEN {}
    ELSE { k \in 1..Len(pm.keys) :
             pm.keys[k].prefixed /\ pm.keys[k].is_dictionary }

\* The argument holds a metric whose value type has no case.
HasUnknownType(pm) ==
    \E k \in WrittenProfiles(pm) :
        \E j \in 1..Len(pm.keys[k].entries) :
            pm.keys[k].entries[j].value.type \notin KnownValueTypes

\* C14: RecordEnvironment called with a profile metric whose value is no
\* string, boolean or integer is aborted with a fault at that metric: no
\* profileparam element is written for a metric that follows it, and the
\* protobuf of the environment, which is written after the profile
\* metrics, is not written.
C14_ProgrammingFaultAborts ==
    [][ (/\ nops' = nops + 1
         /\ last_op'.op = "RecordEnvironment"
         /\ HasUnknownType(last_op'.profile_metrics))
        => LET pm == last_op'.profile_metrics
               written == SubSeq(xml', last_op'.from, Len(xml'))
           IN  /\ crashed'
               /\ \A k \in WrittenProfiles(pm) :
                    \A j \in 1..Len(pm.keys[k].entries) :
                      pm.keys[k].entries[j].value.type \notin KnownValueTypes
                        => \A j2 \in (j + 1)..Len(pm.keys[k].entries) :
                             \A e \in StartsOf(written, "profileparam") :
                               << "name", pm.keys[k].entries[j2].key >>
                                   \notin AttrsOf(written, e)
               /\ "install_date"
                      \notin DOMAIN last_op'.wrote.system_profile ]_vars

\* C15: the event counter of a log is the number of omnibox events in its
\* protobuf; RecordOmniboxOpenedURL on an open log appends one event after
\* those the log holds and adds one to the counter; the other record
\* operations change neither; the counter of a log never decreases.
C15_EventCounting ==
    [][ /\ ~crashed => num_events = Len(proto.omnibox_event)
        /\ ~crashed' => num_events' = Len(proto'.omnibox_event)
        /\ (nops' = nops + 1 /\ ~crashed' /\ ~locked
              /\ last_op'.op = "RecordOmniboxOpenedURL")
             => /\ num_events' = num_events + 1
                /\ Len(proto'.omnibox_event) = Len(proto.omnibox_event) + 1
                /\ SubSeq(proto'.omnibox_event, 1, Len(proto.omnibox_event))
                       = proto.omnibox_event
        /\ (nops' = nops + 1 /\ last_op'.op \in SnapshotOps)
             => /\ num_events' = num_events
                /\ proto'.omnibox_event = proto.omnibox_event
        /\ (locked' \/ ~locked) => num_events' >= num_events ]_vars

\* Two omnibox events on one log, the second at a later time than the
\* first.
C15_Witness ==
    /\ ~crashed /\ nops = 2 /\ num_events = 2
    /\ last_op.op = "RecordOmniboxOpenedURL"
    /\ Len(proto.omnibox_event) = 2
    /\ proto.omnibox_event[1].time < proto.omnibox_event[2].time

\* C16: a stability snapshot that returns leaves the uptime checkpoint at
\* the current time; the uptime it computes is 0 when the checkpoint was not
\* yet initialized and otherwise the whole seconds between the checkpoint
\* and now; the uptime is written, to both encodings and with that value,
\* exactly when it is not 0.
C16_UptimeCheckpoint ==
    [][ (nops' = nops + 1 /\ ~crashed' /\ last_op'.op \in SnapshotOps)
        => LET value == IF last_updated_time.set
                        THEN (now - last_updated_time.t) \div TicksPerSecond
                        ELSE 0
               written == SubSeq(xml', last_op'.from, Len(xml'))
               attrs == UNION { AttrsOf(written, i) :
                                  i \in StartsOf(written, "stability") }
               fields == last_op'.wrote.stability
           IN  /\ last_updated_time' = [ set |-> TRUE, t |-> now ]
               /\ IF value = 0
                  THEN /\ "uptime_sec" \notin DOMAIN fields
                       /\ ~\E a \in attrs : a[1] = "uptimesec"
                  ELSE /\ "uptime_sec" \in DOMAIN fields
                       /\ fields["uptime_sec"] = value
                       /\ << "uptimesec", ToString(value) >> \in attrs
                       /\ \A a \in attrs : a[1] = "uptimesec"
                                              => a[2] = ToString(value) ]_vars

\* Two snapshots, the second some ticks after the first: the first set the
\* checkpoint and wrote no uptime, the second wrote the second elapsed.
C16_Witness ==
    /\ SnapshotReturned /\ nops = 2
    /\ last_updated_time = [ set |-> TRUE, t |-> now ]
    /\ now >= TicksPerSecond
    /\ "uptime_sec" \in DOMAIN StabilityFields
    /\ StabilityFields["uptime_sec"] = 1
    /\ Cardinality(StartsOf(xml, "stability")) = 2
    /\ Cardinality({ i \in 1..Len(xml) :
                       xml[i].t = "attr" /\ xml[i].name = "uptimesec" }) = 1

\* C17: when no call of GetIncrementalUptime is running, the values the
\* calls that overlapped have returned add up to no more than the whole
\* seconds from the checkpoint before the first of them began to now: no
\* interval is reported by two callers.
C17_UptimeAtomicUpdate ==
    (\A t \in Callers : uptime_calls.at[t] = "idle")
        => uptime_calls.sum
               <= (now - uptime_calls.base) \div TicksPerSecond

\* The XML elements and the protobuf messages of the environment facts.
EnvironmentElements ==
    { "plugin", "cpu", "memory", "os", "gpu", "display", "bookmarks",
      "bookmarklocation", "keywords" }
EnvironmentMessages ==
    { "system_profile", "hardware", "os", "gpu", "plugin", "field_trial" }

\* C18: RecordIncrementalStabilityElements that returns has reset the
\* required, realtime and platform counters and written the required ones,
\* has left the counters only RecordEnvironment reads and the bookmark
\* prefs as they were and written none of them, and has written no
\* environment fact to either encoding.
C18_IncrementalIsMinimal ==
    [][ (/\ nops' = nops + 1 /\ ~crashed'
         /\ last_op'.op = "RecordIncrementalStabilityElements")
        => LET written == SubSeq(xml', last_op'.from, Len(xml'))
               attrs == UNION { AttrsOf(written, i) :
                                  i \in StartsOf(written, "stability") }
               wrote == last_op'.wrote
           IN  /\ \A c \in SnapshotCounters(last_op'.op) : counters'[c] = 0
               /\ \A c \in RequiredCounters :
                     /\ ProtoName(c) \in DOMAIN wrote.stability
                     /\ wrote.stability[ProtoName(c)] = counters[c]
                     /\ << XmlName(c), ToString(counters[c]) >> \in attrs
               /\ \A c \in EnvironmentCounters \cup BookmarkPrefs :
                     counters'[c] = counters[c]
               /\ \A c \in EnvironmentCounters :
                     /\ ProtoName(c) \notin DOMAIN wrote.stability
                     /\ ~\E a \in attrs : a[1] = XmlName(c)
               /\ \A name \in EnvironmentElements :
                     StartsOf(written, name) = {}
               /\ \A msg \in EnvironmentMessages :
                     wrote[msg] = << >>
               /\ Len(wrote.plugin_stability)
                     = Cardinality(StartsOf(written, "pluginstability")) ]_vars

\* The incremental snapshot has returned: it carried the launch and the
\* plugin's record, and the debugger-present count is still in the prefs.
C18_Witness ==
    /\ SnapshotReturned
    /\ last_op.op = "RecordIncrementalStabilityElements"
    /\ CarriedBy(last_op, "kStabilityLaunchCount") = 1
    /\ counters["kStabilityLaunchCount"] = 0
    /\ counters["kStabilityDebuggerPresent"] = 1
    /\ Len(PluginStabilityEntries) = 1

\* The place in the inventory of the earliest item that has the name of
\* the record.
EarliestNamed(item) ==
    LET named == { j \in 1..Len(plugins) :
                     plugins[j].name = UTF8ToUTF16(RecordName(item)) }
    IN  CHOOSE j \in named : \A k \in named : j <= k

DefaultedAttrs(item) ==
    { << "filename", CreateHashes(RecordName(item)) >>,
      << "launchcount", ToString(DictGet(item.dict, "launches", 0)) >>,
      << "instancecount", ToString(DictGet(item.dict, "instances", 0)) >>,
      << "crashcount", ToString(DictGet(item.dict, "crashes", 0)) >> }

\* C20: when every persisted record that has a name has the name of an
\* installed plugin, a stability snapshot returns whatever persisted value
\* is absent: a record that lacks its launches, instances or crashes is
\* written with 0 for each to the XML, and to the protobuf entry of its
\* plugin; an absent plugin-usage list gives no plugin stability entry in
\* either encoding; an absent install date gives the default install
\* date, "0" in the XML and 0 in the system profile.
C20_MissingDataDefaults ==
    [][ (/\ nops' = nops + 1
         /\ last_op'.op \in SnapshotOps
         /\ \A k \in 1..Len(plugin_stats.items) :
                \/ MatchesInstalled(plugin_stats.items[k])
                \/ "name" \notin DOMAIN plugin_stats.items[k].dict)
        => LET written == SubSeq(xml', last_op'.from, Len(xml'))
               wrote == last_op'.wrote
               items == plugin_stats.items
               matched == SelectSeq(items, MatchesInstalled)
           IN  /\ ~crashed'
               /\ \A k \in 1..Len(items) :
                     \E e \in StartsOf(written, "pluginstability") :
                         DefaultedAttrs(items[k]) \subseteq AttrsOf(written, e)
               /\ \A i \in 1..Len(matched) :
                     /\ i <= Len(wrote.plugin_stability)
                     /\ wrote.plugin_stability[i].launch_count
                           = DictGet(matched[i].dict, "launches", 0)
                     /\ wrote.plugin_stability[i].instance_count
                           = DictGet(matched[i].dict, "instances", 0)
                     /\ wrote.plugin_stability[i].crash_count
                           = DictGet(matched[i].dict, "crashes", 0)
               /\ plugin_stats.null
                     => /\ wrote.plugin_stability = << >>
                        /\ StartsOf(written, "pluginstability") = {}
               /\ ~install_date.set
                     => /\ \E e \in StartsOf(written, "install") :
                               << "installdate", "0" >>
                                   \in AttrsOf(written, e)
                        /\ last_op'.op = "RecordEnvironment"
                               => /\ "install_date"
                                        \in DOMAIN wrote.system_profile
                                  /\ wrote.system_profile.install_date
                                        = 0 ]_vars

\* The whole seconds of wall time since the first call of
\* GetIncrementalUptime.
SecondsSinceFirstCall == (now - uptime_history.first) \div TicksPerSecond

\* C21: calls of GetIncrementalUptime that follow one another.  Each call
\* returns the whole seconds since the checkpoint, adds exactly that value
\* to the uninstall-metrics uptime, leaves it as it was when the value is
\* 0, and moves the checkpoint to now; so the uninstall-metrics uptime is
\* always its initial value plus the sum of the values returned, and that
\* sum is never more than the whole seconds since the first call.
C21_PersistedCumulativeUptime ==
    /\ [](/\ uptime_sec = uptime_history.initial + uptime_history.sum
          /\ uptime_history.began
                => uptime_history.sum <= SecondsSinceFirstCall)
    /\ [][ uptime_history'.ncalls = uptime_history.ncalls + 1
           => LET value == uptime_history'.sum - uptime_history.sum
              IN  /\ value = IF last_updated_time.set
                             THEN (now - last_updated_time.t)
                                      \div TicksPerSecond
                             ELSE 0
                  /\ uptime_sec' = uptime_sec + value
                  /\ value = 0 => uptime_sec' = uptime_sec
                  /\ last_updated_time' = [ set |-> TRUE, t |-> now ] ]_vars

\* Three calls half a second apart have each returned 0 and each moved
\* the checkpoint: a whole second has passed since the first and the
\* uninstall-metrics uptime is still its initial value.
C21_Witness ==
    /\ uptime_history.ncalls = 3
    /\ last_updated_time = [ set |-> TRUE, t |-> now ]
    /\ uptime_history.sum = 0
    /\ SecondsSinceFirstCall = 1
    /\ uptime_sec = uptime_history.initial

====
